---- MODULE Spec2Model ----
(***************************************************************************)
(* Incremental crawl engine of social_media_spider.                        *)
(*                                                                         *)
(*  - the page-number crawler: Spider in src/spiders/weibo/spider.py,      *)
(*    driven target by target by Spider.start / get_one_user, with the     *)
(*    generator get_weibo_info yielding one batch per page;                *)
(*  - the opaque-cursor crawler: JikeSpider in src/spiders/jike/main.py    *)
(*    (get_all_jike_data / get_jike_data / refresh_access_token);          *)
(*  - the two callers of Spider: WeiboSpiderMain in                        *)
(*    src/spiders/weibo/main.py and main / _get_config in spider.py.  A    *)
(*    Spider run by them takes its waits from the default configuration;   *)
(*    the fields the setters change are kept in main_config.               *)
(*                                                                         *)
(* Dates are naturals (a larger number is a later minute).  Remote calls   *)
(* (parsers, writers, HTTP) are the environment: each call picks one of    *)
(* its possible outcomes.  The clock advances by one with every page fetch.*)
(***************************************************************************)
EXTENDS Integers, Sequences, FiniteSets, TLC

\* ------------------------------------------------------------------ bounds
NumTargets == 2     \* targets in user_config_list
MaxPageNum == 2     \* largest page count IndexParser.get_page_num reports
MaxId      == 2     \* record ids of one target are 1..MaxId
MaxPages   == 2     \* largest max_pages given to get_all_jike_data
NumSinks   == 2     \* writers followed by downloaders of one target

\* end_date = "now" (spider.py:268) is encoded as a date no calendar date has
EndNow == -1
\* new_since_date = "" (spider.py:136), and a user_id_list.txt line without a date
NoDate == -2

VARIABLES
    \* ---- Spider: configuration taken by __init__
    mode,               \* "list" | "file" | "flag": user_id_list a list, a .txt path, or -u
    user_config_list,   \* self.user_config_list
    end_date,           \* self.end_date
    random_wait_pages,  \* self.random_wait_pages = [min, max]
    global_wait,        \* self.global_wait (the schedule, rotated in place)
    \* ---- Spider: fields changed by a run
    page_count,         \* self.page_count
    user_config,        \* self.user_config (0: none yet, else index in user_config_list)
    new_since_date,     \* self.new_since_date
    got_num,            \* self.got_num
    weibo_id_list,      \* self.weibo_id_list
    \* ---- locals of start / get_weibo_info
    pc,                 \* position of the run
    idx,                \* number of targets taken from user_config_list so far
    page_num, page, page1, random_pages,
    weibos, to_continue,
    \* ---- environment
    now,                \* the clock, datetime.now()
    stored,             \* user_id_list.txt: user_uri -> since_date
    remote_max,         \* largest page count the remote site reports
    \* ---- observation of the run (history)
    cfg_global_wait,    \* config["global_wait"] as given to Spider.__init__
    raised,             \* targets whose run raised (caught at spider.py:239 or :354)
    committed,          \* targets for which update_user_config_file was called
    finished,           \* targets whose page loop ended without an exception
    overlap,            \* the last page repeated an id of an earlier page
    delivered,          \* sink -> ids the current target's sink has written, in order
    sink_failed,        \* sink that raised in the last write_weibo (0: none)
    last_wait,          \* the global wait fired by the last step of get_weibo_info
    fetched,            \* get_one_page calls made for the current target
    served,             \* records in the batches get_one_page returned for it
    run_start,          \* the clock when initialize_info ran for the current target
    signal,             \* an interrupt (KeyboardInterrupt) arrived during a global wait
    cookie_invalid      \* the cookie was found invalid (login probe or login page)

VARIABLES
    \* ---- WeiboSpiderMain and the command-line entry main
    api_pc,             \* position of the caller of the Spider ("off": none)
    main_config,        \* self.config of WeiboSpiderMain, config of main
    api_result,         \* what start_crawling returned ("none": nothing yet)
    cookies             \* the cookie strings: in config.json (file), passed by
                        \* check_cookie (probed), held by the Spider (spider)

VARIABLES
    \* ---- user_id_list.txt and its two functions in config_util
    user_id_file,       \* the lines of the file, each the words between spaces
    last_update,        \* the last update_user_config_file call
    user_config_read,   \* what get_user_config_list returned after it
    fpc                 \* "off" | "file" | "updated" | "read"

VARIABLES
    \* ---- JikeSpider
    access_token,       \* self.access_token (0: none)
    refresh_token,      \* self.refresh_token
    file_tokens,        \* jike_config.json: << access_token, refresh_token >>
    \* ---- locals of get_all_jike_data / get_jike_data
    jpc,                \* position of the run
    max_pages,          \* argument of get_all_jike_data
    all_data, last_id, jpage,
    response,           \* the response get_jike_data holds
    \* ---- observation of the run (history)
    sent,               \* the requests of the current get_jike_data call
    n_requests,         \* data requests sent in the run
    n_refresh,          \* refresh_access_token calls in the run
    call_refresh,       \* refresh_access_token calls of the current get_jike_data call
    last_refresh,       \* the last refresh_access_token call
    \* ---- crawl_jike, the caller of get_all_jike_data
    jike_saved,         \* the data handed to save_jike_data
    jike_reply          \* the reply of crawl_jike ("none": not yet)

\* what Spider.__init__ fixes for the run
config == << mode, user_config_list, end_date, random_wait_pages, remote_max,
             cfg_global_wait >>

\* the locals of one get_weibo_info generator
locals == << page_num, page, page1, random_pages, weibos, to_continue, overlap,
             fetched, served >>

\* the fields of a Spider
fields == << config, global_wait, page_count, user_config, new_since_date, got_num,
             weibo_id_list, idx, locals, now, stored, raised, committed,
             finished, delivered, sink_failed, last_wait, run_start, signal >>

wvars == << fields, pc, cookie_invalid >>

avars == << api_pc, main_config, api_result, cookies >>

jvars == << access_token, refresh_token, file_tokens, jpc, max_pages, all_data,
            last_id, jpage, response, sent, n_requests, n_refresh, call_refresh,
            last_refresh, jike_saved, jike_reply >>

fvars == << user_id_file, last_update, user_config_read, fpc >>

vars == << wvars, jvars, avars, fvars >>

\* ----------------------------------------------------------------- helpers
Min(a, b) == IF a <= b THEN a ELSE b

Sinks == 1..NumSinks
Ids   == 1..MaxId

\* the ids lo..hi as a sequence (a page is a window of the remote feed)
Window(lo, hi) == [i \in 1..(hi - lo + 1) |-> lo + i - 1]

\* What one page of the remote feed can hold, before deduplication, when the
\* first n records of the feed were seen on earlier pages: a window of the feed
\* that starts anywhere in the part already seen (new content shifted the
\* window back) or right after it
RawPages(n) == {<< >>} \cup {Window(lo, hi) : lo \in 1..Min(n + 1, MaxId), hi \in Ids}

InSeq(x, s) == \E i \in 1..Len(s) : s[i] = x

NoWait == [place |-> "none", seconds |-> 0, counter |-> 0, threshold |-> 0,
           tier_seconds |-> 0, target |-> 0, page |-> 0]

NoResponse == [status |-> 0, data |-> << >>, lastId |-> 0]

NoRefresh == [result |-> "none", before |-> << 0, 0 >>, offered |-> << 0, 0 >>,
              saved |-> FALSE]

\* ------------------------------------------------- Spider: code fragments

\* variant: the consumed tier is dropped, not moved to the tail
DropHead(gw) == Tail(gw)

\* self.global_wait.append(self.global_wait.pop(0))
Rotate(gw) == Tail(gw) \o << Head(gw) >>

\* int(self.global_wait[0][1] * min(1, self.page_count / self.global_wait[0][0]))
ProportionalWait(count, tier) == (tier[2] * Min(count, tier[1])) \div tier[1]

\* if self.page_count > 2 and (self.page_count + page_num) > self.global_wait[0][0]
\* (read only when the schedule is not empty)
PreLoopWaitDue(count, pages, gw) == count > 2 /\ count + pages > gw[1][1]

\* variant: the wait fires only once the counter has passed the threshold
LoopWaitAfter(count, gw) == count > gw[1][1]

\* if self.page_count >= self.global_wait[0][0]
LoopWaitDue(count, gw) == count >= gw[1][1]

\* variant: the jitter sleep follows every page but the last
JitterEveryPage(p, p1, rp, pages) == p < pages

\* if (page - page1) % random_pages == 0 and page < page_num
JitterDue(p, p1, rp, pages) == (p - p1) % rp = 0 /\ p < pages

\* variant: end_date is stored as it is configured, "now" unresolved
UnresolvedEndDate(ed, clock) == ed

\* initialize_info: the watermark the run will commit
NewSinceDate(ed, clock) == IF ed = EndNow THEN clock ELSE ed

\* variant: the -u flag does not enable the commit
CommitOnlyForFile(m) == m = "file"

\* if self.user_config_file_path or FLAGS.u
CommitEnabled(m) == m = "file" \/ m = "flag"

\* variant: the handlers catch BaseException
CaughtEverything(kind) == TRUE

\* _is_date: the string parses as %Y-%m-%d (or %Y-%m-%d %H:%M)
IsDate(s) == s \in {"2024-01-01"}

\* A text is the sequence of the words a string holds between its spaces
\* ("" is the one empty word).  _is_date on a text: a date, or a date and a
\* time of day
DateWords == {"2024-01-01", "2024-02-02"}
TimeWords == {"10:00", "11:30"}
IsDateText(t) ==
    \/ Len(t) = 1 /\ t[1] \in DateWords
    \/ Len(t) = 2 /\ t[1] \in DateWords /\ t[2] \in TimeWords

\* line.split(' '): the list of the words, each a text of one word
Split(line) == [i \in 1..Len(line) |-> << line[i] >>]

\* ' '.join(info): the words of all the texts of the list
RECURSIVE Join(_)
Join(info) == IF info = << >> THEN << >> ELSE Head(info) \o Join(Tail(info))

\* variant: the time of day of the old watermark is left in the line
UpdateInfoKeepTime(info, nickname, start_time) ==
    LET i1 == IF Len(info) = 1 THEN info \o << nickname, start_time >> ELSE info
        i2 == IF Len(i1) = 2 THEN Append(i1, start_time) ELSE i1
    IN  IF Len(i2) > 2 THEN [i2 EXCEPT ![3] = start_time] ELSE i2

\* update_user_config_file on the words of the target's line: the four ifs
\* in their order
UpdateInfo(info, nickname, start_time) ==
    LET i1 == IF Len(info) = 1 THEN info \o << nickname, start_time >> ELSE info
        i2 == IF Len(i1) = 2 THEN Append(i1, start_time) ELSE i1
        i3 == IF Len(i2) > 3 /\ IsDateText(i2[3] \o i2[4])
              THEN SubSeq(i2, 1, 3) \o SubSeq(i2, 5, Len(i2)) ELSE i2
    IN  IF Len(i3) > 2 THEN [i3 EXCEPT ![3] = start_time] ELSE i3

\* update_user_config_file: the first line whose first word is user_uri is
\* rewritten (break), every other line is written back as it was read
FirstLineOf(lines, user_uri) ==
    IF \E i \in 1..Len(lines) : lines[i][1] = user_uri
    THEN CHOOSE i \in 1..Len(lines) :
            /\ lines[i][1] = user_uri
            /\ \A j \in 1..(i - 1) : lines[j][1] # user_uri
    ELSE 0

UpdateUserConfigFile(lines, user_uri, nickname, start_time) ==
    [i \in 1..Len(lines) |->
        IF i = FirstLineOf(lines, user_uri)
        THEN Join(UpdateInfo(Split(lines[i]), nickname, start_time))
        ELSE lines[i]]

\* info[0].isdigit()
IdWords == {"1", "2"}

\* get_user_config_list on one line
UserConfigOf(line, default_since_date) ==
    LET info == Split(line) IN
    [user_uri |-> line[1],
     since_date |->
        IF Len(info) > 2 /\ IsDateText(info[3])
        THEN IF Len(info) > 3 /\ IsDateText(info[3] \o info[4])
             THEN info[3] \o info[4] ELSE info[3]
        ELSE default_since_date]

\* get_user_config_list: the configs of the lines that start with digits, in
\* file order, each once
RECURSIVE GetUserConfigList(_, _, _)
GetUserConfigList(lines, default_since_date, acc) ==
    IF lines = << >> THEN acc
    ELSE LET line == Head(lines)
             c == UserConfigOf(line, default_since_date)
             new == line[1] \in IdWords /\ ~\E i \in 1..Len(acc) : acc[i] = c
         IN GetUserConfigList(Tail(lines), default_since_date,
                              IF new THEN Append(acc, c) ELSE acc)

\* the write_mode list of validate_config
WriteModes == {"txt", "csv", "json", "mongo", "mysql", "sqlite", "kafka", "post"}

\* validate_config returns (TRUE) or calls sys.exit() (FALSE), on the fields
\* the entries can change; the waits are those of the default configuration
ValidateConfig(c) ==
    /\ c.filter \in {0, 1}
    /\ c.pic_download \in {0, 1}
    /\ c.video_download \in {0, 1}
    /\ IsDate(c.since_date)
    /\ IsDate(c.end_date) \/ c.end_date = "now"
    /\ \A i \in 1..Len(c.write_mode) : c.write_mode[i] \in WriteModes

\* variant: a browser that is not logged in does not stop the run
CheckCookiePassed(mlogin) == "validate"

\* check_cookie: sys.exit() when the cookie read from the browser has
\* MLOGIN "0" (or none), update_cookie_config otherwise
CheckCookie(mlogin) == IF mlogin = "0" THEN "exited" ELSE "validate"

\* variant: no handler catches anything
CaughtNothing(kind) == FALSE

\* "except Exception": SystemExit (sys.exit()) is not an Exception
CaughtByExcept(kind) == kind = "Exception"

\* variant: the page loop makes one turn more than page_num
PageLoopOneMore(p, n) == IF p <= n + 1 THEN "fetch_page" ELSE "commit"

\* for page in range(1, page_num + 1): the loop body with page = p, or the
\* code after the loop
PageLoop(p, n) == IF p <= n THEN "fetch_page" ELSE "commit"

\* PageParser.get_one_page(weibo_id_list): the records of the page whose id is
\* not in weibo_id_list, in page order, and the list extended by their ids
Unseen(raw, seen) == SelectSeq(raw, LAMBDA x : ~InSeq(x, seen))
GetOnePage(raw, seen) ==
    [weibos |-> Unseen(raw, seen), weibo_id_list |-> seen \o Unseen(raw, seen)]

\* Spider.write_weibo: the sinks are called in order; sink k raising (k = 0:
\* none raises) leaves the sinks after it uncalled
WriteWeiboSinks(log, batch, k) ==
    [s \in Sinks |-> IF k = 0 \/ s < k THEN log[s] \o batch ELSE log[s]]

\* ---------------------------------------------------------- Spider: Init

GlobalWaitConfigs == { << >>, << <<4, 3>> >>, << <<2, 1>>, <<3, 2>> >> }

\* a date later than any the clock reaches in a run
FarFuture == 100 + NumTargets * MaxPageNum

TargetList(n, since) ==
    [i \in 1..n |-> [user_uri |-> i, since_date |-> since]]

SpiderInit(m, targets, ed, rwp, gw, rmax, file_since) ==
    /\ mode = m
    /\ user_config_list = targets
    /\ end_date = ed
    /\ random_wait_pages = rwp
    /\ global_wait = gw
    /\ cfg_global_wait = gw
    /\ page_count = 0
    /\ user_config = 0
    /\ new_since_date = NoDate
    /\ got_num = 0
    /\ weibo_id_list = << >>
    /\ idx = 0
    /\ page_num = 0 /\ page = 0 /\ page1 = 0 /\ random_pages = 1
    /\ weibos = << >> /\ to_continue = TRUE
    /\ now = 0
    /\ stored = [u \in 1..Len(targets) |-> file_since]
    /\ remote_max = rmax
    /\ raised = {} /\ committed = {} /\ finished = {}
    /\ overlap = FALSE
    /\ delivered = [s \in Sinks |-> << >>]
    /\ sink_failed = 0
    /\ last_wait = NoWait
    /\ fetched = 0
    /\ served = 0
    /\ run_start = 0
    /\ signal = FALSE
    /\ cookie_invalid = FALSE

NoUpdate == [user_uri |-> "", since_date |-> << >>, before |-> << >>]

\* no user_id_list.txt is looked at
FileOff ==
    /\ fpc = "off"
    /\ user_id_file = << >>
    /\ last_update = NoUpdate
    /\ user_config_read = << >>

\* _get_default_config, with a cookie (c) and a user_id_list (u) or none
ConfigDict(c, u, f) ==
    [cookie |-> c, user_id_list |-> u, filter |-> f,
     since_date |-> "2024-01-01", end_date |-> "now",
     write_mode |-> << "json" >>, pic_download |-> 0, video_download |-> 0]

\* cookie strings: none, the one config.json holds before the run, and
\* another one
NoCookie == 0
FileCookie == 1
OtherCookie == 2

\* config["cookie"] of a configuration loaded from config.json
ConfigCookie(c) == IF c.cookie THEN FileCookie ELSE NoCookie

\* update_cookie_config: the cookie string of the browser is written to
\* config.json when it differs from the one there; reading or writing the
\* file can raise
UpdateCookieConfig(file, browser, outcome) ==
    IF outcome = "written" THEN browser ELSE file

\* the Spider is built directly from a validated configuration
EntryOff ==
    /\ api_pc = "off"
    /\ main_config = ConfigDict(TRUE, TRUE, 0)
    /\ api_result = "none"
    /\ cookies = [file |-> NoCookie, probed |-> NoCookie, spider |-> FileCookie]

\* the process runs no JikeSpider
JikeOff ==
    /\ jpc = "off"
    /\ access_token = 0 /\ refresh_token = 0 /\ file_tokens = << 0, 0 >>
    /\ max_pages = 0 /\ all_data = << >> /\ last_id = 0 /\ jpage = 0
    /\ response = NoResponse
    /\ sent = << >> /\ n_requests = 0 /\ n_refresh = 0 /\ call_refresh = 0
    /\ last_refresh = NoRefresh
    /\ jike_saved = << >> /\ jike_reply = "none"

\* the configurations of the multi-target runs: every way of giving the
\* targets with every schedule, and for the file path with the two-tier
\* schedule every since_date and end_date
WeiboConfigs ==
    { [mode |-> m, since |-> 0, end_date |-> EndNow, global_wait |-> gw] :
         m \in {"list", "file", "flag"}, gw \in GlobalWaitConfigs }
    \cup
    { [mode |-> "file", since |-> since, end_date |-> ed,
       global_wait |-> << <<2, 1>>, <<3, 2>> >>] :
         since \in {0, FarFuture}, ed \in {EndNow, FarFuture} }

\* a Spider built from a validated configuration, with NumTargets targets
WeiboInit ==
    /\ \E c \in WeiboConfigs :
           SpiderInit(c.mode, TargetList(NumTargets, c.since), c.end_date,
                      << 1, 1 >>, c.global_wait, MaxPageNum,
                      IF c.mode = "file" THEN c.since ELSE NoDate)
    /\ pc = "next_user"
    /\ JikeOff
    /\ EntryOff
    /\ FileOff

\* the schedule [(5,10),(10,20)] of the specification's scenario, one target
\* with up to 14 pages (16 fetches with the user-info and page-count fetches)
ScenarioInit ==
    /\ SpiderInit("file", TargetList(1, 0), EndNow, << 1, 2 >>,
                  << <<5, 10>>, <<10, 20>> >>, 14, 0)
    /\ pc = "next_user"
    /\ JikeOff
    /\ EntryOff
    /\ FileOff

\* ------------------------------------------------------- Spider: actions

Cur == user_config_list[idx]

\* variant: every page is parsed against an empty id list
NoSeenIds == << >>

\* the SeenIdSet handed to get_one_page: get_one_page(self.weibo_id_list)
SeenIds == weibo_id_list

\* Spider.start: take the next target, or return.  The locals of the
\* finished get_weibo_info generator are gone.
NextUser ==
    /\ pc = "next_user"
    /\ \/ /\ idx < Len(user_config_list)
          /\ idx' = idx + 1
          /\ pc' = "get_user_info"
       \/ /\ idx >= Len(user_config_list)
          /\ pc' = "done"
          /\ UNCHANGED idx
    /\ page_num' = 0 /\ page' = 0 /\ page1' = 0 /\ random_pages' = 1
    /\ weibos' = << >> /\ to_continue' = TRUE /\ overlap' = FALSE
    /\ last_wait' = NoWait
    /\ UNCHANGED << config, global_wait, page_count, user_config, new_since_date,
                    got_num, weibo_id_list, now, stored, raised, committed,
                    finished, delivered, sink_failed >>
    /\ fetched' = 0 /\ served' = 0
    /\ UNCHANGED << run_start, signal, cookie_invalid >>
    /\ UNCHANGED << jvars, avars, fvars >>

\* variant: the commit sits in a finally clause
LeaveAndCommit(k) ==
    /\ raised' = raised \cup {idx}
    /\ pc' = "commit"

\* get_one_user: an exception of kind k leaves the target's run; one that
\* "except Exception" (get_weibo_info, get_one_user, then start) does not
\* catch ends the run: SystemExit exits, KeyboardInterrupt cancels
Leave(k) ==
    /\ raised' = raised \cup {idx}
    /\ pc' = IF CaughtByExcept(k) THEN "next_user"
             ELSE IF k = "KeyboardInterrupt" THEN "cancelled" ELSE "exited"

\* get_one_user -> get_user_info: IndexParser(...).get_user(), which reads the
\* profile through InfoParser.extract_user_info (sys.exit() on the login page)
GetUserInfo ==
    /\ pc = "get_user_info"
    /\ \/ /\ page_count' = page_count + 1
          /\ pc' = "initialize_info"
          /\ UNCHANGED raised
          /\ UNCHANGED cookie_invalid
       \/ \* get_user raises, or extract_user_info finds the login page
          /\ \E k \in {"Exception", "SystemExit"} :
                /\ Leave(k)
                /\ cookie_invalid' = (k = "SystemExit")
          /\ UNCHANGED page_count
    /\ UNCHANGED << config, global_wait, user_config, new_since_date, got_num,
                    weibo_id_list, idx, locals, now, stored, committed, finished,
                    delivered, sink_failed, last_wait >>
    /\ UNCHANGED << run_start, signal >>
    /\ UNCHANGED << jvars, avars, fvars >>

\* variant: the id list of the target before is kept
KeptIdList == weibo_id_list

\* initialize_info: self.weibo_id_list = []
NewIdList == << >>

\* get_one_user -> initialize_info, write_user, download_user_avatar
InitializeInfo ==
    /\ pc = "initialize_info"
    /\ got_num' = 0
    /\ user_config' = idx
    /\ weibo_id_list' = NewIdList
    /\ new_since_date' = NewSinceDate(end_date, now)
    /\ delivered' = [s \in Sinks |-> << >>]
    /\ sink_failed' = 0
    /\ \/ pc' = "get_page_num" /\ UNCHANGED raised
       \/ Leave("Exception")
    /\ UNCHANGED << config, global_wait, page_count, idx, locals, now, stored,
                    committed, finished, last_wait >>
    /\ run_start' = now
    /\ UNCHANGED << signal, cookie_invalid >>
    /\ UNCHANGED << jvars, avars, fvars >>

\* the record of a global wait that fires with the counter at count
Fired(place, secs, count) ==
    [place |-> place, seconds |-> secs, counter |-> count,
     threshold |-> global_wait[1][1], tier_seconds |-> global_wait[1][2],
     target |-> idx, page |-> page]

\* get_weibo_info up to the page loop: the since_date test, the page-count
\* fetch, the global wait before the loop, the first jitter draw
GetPageNum ==
    /\ pc = "get_page_num"
    /\ \/ \* since_date later than now: nothing is fetched, nothing committed
          /\ Cur.since_date > now
          /\ pc' = "next_user"
          /\ UNCHANGED << page_count, global_wait, page_num, page, page1,
                          random_pages, raised, finished, last_wait, signal >>
       \/ \* IndexParser(...).get_page_num() raises
          /\ Cur.since_date <= now
          /\ Leave("Exception")
          /\ UNCHANGED << page_count, global_wait, page_num, page, page1,
                          random_pages, finished, last_wait, signal >>
       \/ \* page_count > 2 reads the head of an empty schedule: IndexError
          /\ Cur.since_date <= now
          /\ page_count + 1 > 2 /\ global_wait = << >>
          /\ \E n \in 0..remote_max : page_num' = n
          /\ page_count' = page_count + 1
          /\ Leave("Exception")
          /\ UNCHANGED << global_wait, page, page1, random_pages, finished,
                          last_wait, signal >>
       \/ \* KeyboardInterrupt in a sleep(1) of the global wait before the loop
          /\ Cur.since_date <= now
          /\ global_wait # << >>
          /\ \E n \in 0..remote_max :
                /\ PreLoopWaitDue(page_count + 1, n, global_wait)
                /\ ProportionalWait(page_count + 1, global_wait[1]) > 0
                /\ page_num' = n
          /\ page_count' = page_count + 1
          /\ signal' = TRUE
          /\ Leave("KeyboardInterrupt")
          /\ UNCHANGED << global_wait, page, page1, random_pages, finished,
                          last_wait >>
       \/ /\ Cur.since_date <= now
          /\ ~(page_count + 1 > 2 /\ global_wait = << >>)
          /\ \E n \in 0..remote_max, rp \in random_wait_pages[1]..random_wait_pages[2] :
                /\ page_num' = n
                /\ random_pages' = rp
                /\ IF global_wait # << >> /\ PreLoopWaitDue(page_count + 1, n, global_wait)
                   THEN /\ last_wait' = Fired("pre",
                                ProportionalWait(page_count + 1, global_wait[1]),
                                page_count + 1)
                        /\ page_count' = 0
                        /\ global_wait' = Rotate(global_wait)
                   ELSE /\ page_count' = page_count + 1
                        /\ UNCHANGED << global_wait, last_wait >>
                /\ page1' = 0
                /\ page' = 1
                /\ pc' = PageLoop(1, n)
                /\ finished' = IF PageLoop(1, n) = "commit"
                               THEN finished \cup {idx} ELSE finished
          /\ UNCHANGED << raised, signal >>
    /\ UNCHANGED << config, user_config, new_since_date, got_num, weibo_id_list,
                    idx, weibos, to_continue, overlap, now, stored, committed,
                    delivered, sink_failed >>
    /\ UNCHANGED << fetched, served, run_start, cookie_invalid >>
    /\ UNCHANGED << jvars, avars, fvars >>

\* one turn of the page loop up to the yield: PageParser(...).get_one_page
FetchPage ==
    /\ pc = "fetch_page"
    /\ \/ /\ Leave("Exception")
          /\ UNCHANGED << weibos, weibo_id_list, to_continue, overlap, page_count,
                          now, served >>
       \/ /\ \E raw \in RawPages(Len(weibo_id_list)), tc \in BOOLEAN :
                LET r == GetOnePage(raw, SeenIds) IN
                /\ weibos' = r.weibos
                /\ served' = served + Len(r.weibos)
                /\ weibo_id_list' = r.weibo_id_list
                /\ to_continue' = tc
                /\ overlap' = \E i \in 1..Len(raw) : InSeq(raw[i], weibo_id_list)
                /\ pc' = IF r.weibos # << >> THEN "write_weibo" ELSE "after_yield"
          /\ page_count' = page_count + 1
          /\ now' = now + 1
          /\ UNCHANGED raised
    /\ last_wait' = NoWait
    /\ UNCHANGED << config, global_wait, user_config, new_since_date, got_num, idx,
                    page_num, page, page1, random_pages, stored, committed,
                    finished, delivered, sink_failed >>
    /\ fetched' = fetched + 1
    /\ UNCHANGED << run_start, signal, cookie_invalid >>
    /\ UNCHANGED << jvars, avars, fvars >>

\* get_one_user's loop body on the yielded batch: write_weibo, got_num
WriteWeibo ==
    /\ pc = "write_weibo"
    /\ \E k \in 0..NumSinks :
          /\ delivered' = WriteWeiboSinks(delivered, weibos, k)
          /\ sink_failed' = k
          /\ IF k = 0
             THEN /\ got_num' = got_num + Len(weibos)
                  /\ pc' = "after_yield"
                  /\ UNCHANGED raised
             ELSE /\ Leave("Exception")
                  /\ UNCHANGED got_num
    /\ UNCHANGED << config, global_wait, page_count, user_config, new_since_date,
                    weibo_id_list, idx, locals, now, stored, committed, finished,
                    last_wait >>
    /\ UNCHANGED << run_start, signal, cookie_invalid >>
    /\ UNCHANGED << jvars, avars, fvars >>

\* the page loop after the yield: to_continue, the jitter sleep, the global
\* wait, the next page
AfterYield ==
    /\ pc = "after_yield"
    /\ \/ /\ ~to_continue
          /\ pc' = "commit"
          /\ finished' = finished \cup {idx}
          /\ UNCHANGED << page, page1, random_pages, page_count, global_wait,
                          raised, last_wait, signal >>
       \/ \* self.global_wait[0] of an empty schedule: IndexError
          /\ to_continue
          /\ global_wait = << >>
          /\ Leave("Exception")
          /\ UNCHANGED << page, page1, random_pages, page_count, global_wait,
                          finished, last_wait, signal >>
       \/ /\ to_continue
          /\ global_wait # << >>
          /\ IF JitterDue(page, page1, random_pages, page_num)
             THEN /\ page1' = page
                  /\ random_pages' \in random_wait_pages[1]..random_wait_pages[2]
             ELSE UNCHANGED << page1, random_pages >>
          /\ IF LoopWaitDue(page_count, global_wait)
             THEN /\ last_wait' = Fired("loop", global_wait[1][2], page_count)
                  /\ page_count' = 0
                  /\ global_wait' = Rotate(global_wait)
             ELSE /\ last_wait' = NoWait
                  /\ UNCHANGED << page_count, global_wait >>
          /\ page' = page + 1
          /\ pc' = PageLoop(page + 1, page_num)
          /\ finished' = IF PageLoop(page + 1, page_num) = "commit"
                         THEN finished \cup {idx} ELSE finished
          /\ UNCHANGED << raised, signal >>
       \/ \* KeyboardInterrupt in a sleep(1) of the global wait in the loop
          /\ to_continue
          /\ global_wait # << >>
          /\ LoopWaitDue(page_count, global_wait)
          /\ global_wait[1][2] > 0
          /\ IF JitterDue(page, page1, random_pages, page_num)
             THEN /\ page1' = page
                  /\ random_pages' \in random_wait_pages[1]..random_wait_pages[2]
             ELSE UNCHANGED << page1, random_pages >>
          /\ signal' = TRUE
          /\ Leave("KeyboardInterrupt")
          /\ UNCHANGED << page, page_count, global_wait, finished, last_wait >>
    /\ UNCHANGED << config, user_config, new_since_date, got_num, weibo_id_list,
                    idx, page_num, weibos, to_continue, overlap, now, stored,
                    committed, delivered, sink_failed >>
    /\ UNCHANGED << fetched, served, run_start, cookie_invalid >>
    /\ UNCHANGED << jvars, avars, fvars >>

\* variant: the watermark is the clock read when the commit runs
ClockAtCommit == now

\* the since_date handed to update_user_config_file: self.new_since_date
CommitValue == new_since_date

\* get_weibo_info after the loop: update_user_config_file
Commit ==
    /\ pc = "commit"
    /\ IF CommitEnabled(mode)
       THEN /\ stored' = [stored EXCEPT ![Cur.user_uri] = CommitValue]
            /\ committed' = committed \cup {idx}
       ELSE UNCHANGED << stored, committed >>
    /\ pc' = "next_user"
    /\ UNCHANGED << config, global_wait, page_count, user_config, new_since_date,
                    got_num, weibo_id_list, idx, locals, now, raised, finished,
                    delivered, sink_failed, last_wait >>
    /\ UNCHANGED << run_start, signal, cookie_invalid >>
    /\ UNCHANGED << jvars, avars, fvars >>

\* ------------------------------------------------------------ JikeSpider

\* variant: each token is replaced as soon as its header is present
PartialTokens(old, na, nr) ==
    << IF na # 0 THEN na ELSE old[1], IF nr # 0 THEN nr ELSE old[2] >>

\* refresh_access_token: the pair after a response carrying the headers
\* x-jike-access-token = na and x-jike-refresh-token = nr (0: absent or empty)
RefreshedTokens(old, na, nr) ==
    IF na # 0 /\ nr # 0 THEN << na, nr >> ELSE old

\* save_config: the file after an attempt to write pair; the attempt writes
\* the pair, or fails before the file is opened (the file keeps its content),
\* or fails after open(..., 'w') truncated it (no pair is left); a failure is
\* printed and swallowed
SaveConfig(file, pair, outcome) ==
    IF outcome = "written" THEN pair
    ELSE IF outcome = "truncated" THEN << 0, 0 >> ELSE file

\* variant: the request is sent again with the header it had
StaleToken(header, current) == header

\* headers["x-jike-access-token"] = self.access_token, before the request is
\* sent again (header: the token of the first request; current: self.access_token)
ResendToken(header, current) == current

\* variant: a 401 on the request sent again starts another refresh
RefreshAgain(status) == IF status = 401 THEN "refresh" ELSE "process"

\* if response.status_code == 401: raise Exception(...) after the
\* request was sent again
AfterResend(status) == IF status = 401 THEN "raised" ELSE "process"

\* variant: the cursor of the second request is sent on every later one
FirstCursor(old, resp) == IF old = 0 THEN resp.lastId ELSE old

\* last_id = self.get_last_id_from_response(data): the lastId of the
\* response's loadMoreKey (0: None, the key or the id is absent)
NextCursor(old, resp) == resp.lastId

\* variant: a failed request is raised to the caller of get_all_jike_data
FetchErrorRaised(status) == "raised"

\* except requests.RequestException: return None, and in the loop
\* "if not data: break" (status: the answer that raise_for_status refused,
\* or the network error)
FetchErrorBreaks(status) == "done"

\* variant: the loop runs for as long as the server gives a cursor
JikeLoopNoCap(p, limit) == "request"

\* variant: the loop makes one turn more than max_pages
JikeLoopOneMore(p, limit) == IF p <= limit + 1 THEN "request" ELSE "done"

\* while page <= max_pages
JikeLoop(p, limit) == IF p <= limit THEN "request" ELSE "done"

\* the largest id in a sequence of ids (0: none)
MaxOf(s) == IF s = << >> THEN 0
            ELSE CHOOSE m \in {s[i] : i \in 1..Len(s)} :
                    \A i \in 1..Len(s) : s[i] <= m

\* what the server can answer to a data request
Responses ==
    { [status |-> 401, data |-> << >>, lastId |-> 0],
      [status |-> 500, data |-> << >>, lastId |-> 0] }
    \cup { [status |-> 200, data |-> d, lastId |-> c] :
             d \in RawPages(MaxOf(all_data)), c \in 0..MaxId }

\* a JikeSpider with the token pair of jike_config.json, entering
\* get_all_jike_data(max_pages): all_data = [], last_id = None, page = 1
JikeInit ==
    /\ SpiderInit("list", << >>, EndNow, << 1, 1 >>, << >>, 0, NoDate)
    /\ pc = "off"
    /\ EntryOff
    /\ FileOff
    /\ access_token = 1 /\ refresh_token = 1 /\ file_tokens = << 1, 1 >>
    /\ max_pages \in 0..MaxPages
    /\ all_data = << >> /\ last_id = 0 /\ jpage = 1
    /\ jpc = JikeLoop(1, max_pages)
    /\ response = NoResponse
    /\ sent = << >> /\ n_requests = 0 /\ n_refresh = 0 /\ call_refresh = 0
    /\ last_refresh = NoRefresh
    /\ jike_saved = << >> /\ jike_reply = "none"

\* the Spider that WeiboSpiderMain.start_crawling and main construct: one
\* target given as a list, one tier
EntrySpider ==
    /\ SpiderInit("list", TargetList(1, 0), EndNow, << 1, 1 >>, << <<4, 3>> >>,
                  MaxPageNum, NoDate)
    /\ pc = "off"
    /\ JikeOff
    /\ FileOff
    /\ api_result = "none"

\* WeiboSpiderMain(config_dict = ...) is about to be constructed
ApiInit ==
    /\ EntrySpider
    /\ api_pc = "init"
    /\ \E c \in BOOLEAN, u \in BOOLEAN, f \in 0..2 :
          main_config = ConfigDict(c, u, f)
    /\ cookies = [file |-> NoCookie, probed |-> NoCookie, spider |-> NoCookie]

\* main is about to call _get_config on a config.json that names a user
MainInit ==
    /\ EntrySpider
    /\ api_pc = "get_config"
    /\ \E c \in BOOLEAN, f \in 0..2 : main_config = ConfigDict(c, TRUE, f)
    /\ cookies = [file |-> ConfigCookie(main_config), probed |-> NoCookie,
                  spider |-> NoCookie]

\* the shapes of a target's line in user_id_list.txt
LineShapes(id) ==
    { << id >>, << id, "nick" >>, << id, "nick", "2024-01-01" >>,
      << id, "nick", "2024-01-01", "10:00" >> }

\* a user_id_list.txt with one line for each of two targets
FileInit ==
    /\ SpiderInit("file", TargetList(1, 0), EndNow, << 1, 1 >>, << <<4, 3>> >>,
                  MaxPageNum, 0)
    /\ pc = "off"
    /\ JikeOff
    /\ EntryOff
    /\ fpc = "file"
    /\ \E l1 \in LineShapes("1"), l2 \in LineShapes("2") :
          user_id_file = << l1, l2 >>
    /\ last_update = NoUpdate
    /\ user_config_read = << >>

Init == WeiboInit \/ ScenarioInit \/ JikeInit \/ ApiInit \/ MainInit \/ FileInit

\* get_jike_data: the data request with the cursor last_id and the access token
JikeRequest ==
    /\ jpc = "request"
    /\ \E r \in Responses :
          /\ response' = r
          /\ jpc' = IF r.status = 401 THEN "refresh" ELSE "process"
    /\ sent' = << [cursor |-> last_id, token |-> access_token] >>
    /\ n_requests' = n_requests + 1
    /\ call_refresh' = 0
    /\ UNCHANGED << access_token, refresh_token, file_tokens, max_pages, all_data,
                    last_id, jpage, n_refresh, last_refresh >>
    /\ UNCHANGED << wvars, avars, jike_saved, jike_reply, fvars >>

\* get_jike_data on 401: refresh_access_token, with save_config on success
\* (save_config prints and swallows a failure to write the file)
RefreshAccessToken ==
    /\ jpc = "refresh"
    /\ n_refresh' = n_refresh + 1
    /\ call_refresh' = call_refresh + 1
    /\ \/ \* requests.post or raise_for_status raises RequestException
          /\ last_refresh' = [result |-> "failed",
                              before |-> << access_token, refresh_token >>,
                              offered |-> << 0, 0 >>, saved |-> FALSE]
          /\ jpc' = "raised"
          /\ UNCHANGED << access_token, refresh_token, file_tokens >>
       \/ \E na \in {0, access_token + 1}, nr \in {0, refresh_token + 1},
             outcome \in {"written", "not_opened", "truncated"} :
             LET old == << access_token, refresh_token >>
                 new == RefreshedTokens(old, na, nr)
                 ok  == na # 0 /\ nr # 0
             IN /\ access_token' = new[1]
                /\ refresh_token' = new[2]
                /\ file_tokens' = IF ok THEN SaveConfig(file_tokens, new, outcome)
                                   ELSE file_tokens
                /\ last_refresh' = [result |-> IF ok THEN "ok" ELSE "missing",
                                    before |-> old, offered |-> << na, nr >>,
                                    saved |-> ok /\ outcome = "written"]
                /\ jpc' = IF ok THEN "resend" ELSE "raised"
    /\ UNCHANGED << max_pages, all_data, last_id, jpage, response, sent, n_requests >>
    /\ UNCHANGED << wvars, avars, jike_saved, jike_reply, fvars >>

\* get_jike_data after a refresh: the same payload with the new access token
JikeResend ==
    /\ jpc = "resend"
    /\ \E r \in Responses :
          /\ response' = r
          /\ jpc' = AfterResend(r.status)
    /\ sent' = Append(sent, [cursor |-> last_id,
                             token |-> ResendToken(sent[1].token, access_token)])
    /\ n_requests' = n_requests + 1
    /\ UNCHANGED << access_token, refresh_token, file_tokens, max_pages, all_data,
                    last_id, jpage, n_refresh, call_refresh, last_refresh >>
    /\ UNCHANGED << wvars, avars, jike_saved, jike_reply, fvars >>

\* the rest of get_jike_data (raise_for_status, json) and the loop body of
\* get_all_jike_data on its result
JikeProcess ==
    /\ jpc = "process"
    /\ \/ \* RequestException: get_jike_data returns None, the loop breaks
          /\ response.status # 200
          /\ jpc' = FetchErrorBreaks(response.status)
          /\ UNCHANGED << all_data, last_id, jpage >>
       \/ \* no data: the loop breaks
          /\ response.status = 200 /\ response.data = << >>
          /\ jpc' = "done"
          /\ UNCHANGED << all_data, last_id, jpage >>
       \/ /\ response.status = 200 /\ response.data # << >>
          /\ all_data' = all_data \o response.data
          /\ last_id' = NextCursor(last_id, response)
          /\ IF last_id' = 0
             THEN jpc' = "done" /\ UNCHANGED jpage
             ELSE jpage' = jpage + 1 /\ jpc' = JikeLoop(jpage + 1, max_pages)
    /\ UNCHANGED << access_token, refresh_token, file_tokens, max_pages, response,
                    sent, n_requests, n_refresh, call_refresh, last_refresh >>
    /\ UNCHANGED << wvars, avars, jike_saved, jike_reply, fvars >>

\* variant: crawl_jike saves whatever the spider had gathered
JikeReplySuccess(state, data) == "success"

\* crawl_jike: an exception of get_all_jike_data that names a token is
\* answered 401, an empty result 500, anything else is saved
JikeReply(state, data) ==
    IF state = "raised" THEN "401"
    ELSE IF data = << >> THEN "500" ELSE "success"

\* crawl_jike after get_all_jike_data returned (jpc = "done") or raised
CrawlJike ==
    /\ jpc \in {"done", "raised"}
    /\ jike_reply = "none"
    /\ jike_reply' = JikeReply(jpc, all_data)
    /\ jike_saved' = IF jike_reply' = "success" THEN all_data ELSE << >>
    /\ UNCHANGED << access_token, refresh_token, file_tokens, jpc, max_pages,
                    all_data, last_id, jpage, response, sent, n_requests,
                    n_refresh, call_refresh, last_refresh >>
    /\ UNCHANGED << wvars, avars, fvars >>

\* ------------------------------------------------- user_id_list.txt

\* the nicknames (one word, as a Weibo nickname is) and the watermarks (a
\* date as end_date gives it, a date and time as "now" gives it) of a commit
Nicknames == { << "nick" >>, << "" >> }
Watermarks == { << "2024-02-02" >>, << "2024-02-02", "11:30" >> }

\* update_user_config_file(path, user_uri, nickname, start_time)
UpdateUserConfigFileCall ==
    /\ fpc = "file"
    /\ \E u \in IdWords, n \in Nicknames, w \in Watermarks :
          /\ user_id_file' = UpdateUserConfigFile(user_id_file, u, n, w)
          /\ last_update' = [user_uri |-> u, since_date |-> w,
                              before |-> user_id_file]
    /\ fpc' = "updated"
    /\ UNCHANGED << user_config_read, wvars, jvars, avars >>

\* get_user_config_list(path, default_since_date) of the next run
GetUserConfigListCall ==
    /\ fpc = "updated"
    /\ user_config_read' =
          GetUserConfigList(user_id_file, << "2024-01-01" >>, << >>)
    /\ fpc' = "read"
    /\ UNCHANGED << user_id_file, last_update, wvars, jvars, avars >>

FileNext ==
    \/ UpdateUserConfigFileCall
    \/ GetUserConfigListCall

\* ------------------------------------------- WeiboSpiderMain and main

\* WeiboSpiderMain.__init__: validate_config(self.config), whose sys.exit()
\* passes the "except Exception: raise"
Construct ==
    /\ api_pc = "init"
    /\ api_pc' = IF ValidateConfig(main_config) THEN "config" ELSE "exited"
    /\ UNCHANGED << main_config, api_result, cookies, wvars, jvars, fvars >>

\* a setter of WeiboSpiderMain: self.config[...] = ..., nothing else
Setter(new_config) ==
    /\ api_pc = "config"
    /\ main_config' = new_config
    /\ UNCHANGED << api_pc, api_result, cookies, wvars, jvars, fvars >>

SetCookie ==
    \E c \in BOOLEAN : Setter([main_config EXCEPT !.cookie = c])

SetUserIds ==
    \E u \in BOOLEAN : Setter([main_config EXCEPT !.user_id_list = u])

\* the date ranges a caller can pass: a good one, a bad since_date, a bad
\* end_date
DateRanges ==
    { << "2024-01-01", "now" >>, << "01/01/2024", "now" >>,
      << "2024-01-01", "2024-13-01" >> }

SetDateRange ==
    \E d \in DateRanges :
        Setter([main_config EXCEPT !.since_date = d[1], !.end_date = d[2]])

SetFilterMode ==
    \E f \in 0..2 : Setter([main_config EXCEPT !.filter = f])

SetOutputFormat ==
    \E w \in {<< "json" >>, << "xml" >>} :
        Setter([main_config EXCEPT !.write_mode = w])

EnableMediaDownload ==
    \E p \in BOOLEAN :
        Setter([main_config EXCEPT !.pic_download = IF p THEN 1 ELSE 0,
                                   !.video_download = 0])

\* start_crawling up to self.spider.start(): False without a cookie or a
\* user_id_list, otherwise Spider(self.config)
StartCrawling ==
    /\ api_pc = "config"
    /\ IF main_config.cookie /\ main_config.user_id_list
       THEN /\ api_pc' = "crawling"
            /\ pc' = "next_user"
            /\ cookies' = [cookies EXCEPT !.spider = ConfigCookie(main_config)]
            /\ UNCHANGED api_result
       ELSE /\ api_pc' = "returned"
            /\ api_result' = "False"
            /\ UNCHANGED << pc, cookies >>
    /\ UNCHANGED << main_config, fields, cookie_invalid, jvars, fvars >>

\* start_crawling after self.spider.start() returned: return True
StartCrawlingReturn ==
    /\ api_pc = "crawling"
    /\ pc = "done"
    /\ api_pc' = "returned"
    /\ api_result' = "True"
    /\ UNCHANGED << main_config, cookies, wvars, jvars, fvars >>

\* _get_config: config.json is loaded; sys.exit() without a cookie field;
\* then check_cookie, whose exceptions (get_cookie, update_cookie_config) are
\* logged and dropped and whose sys.exit() is not; a browser that is logged
\* in has its cookie string written to config.json; the config loaded before
\* the probe is returned
GetConfig ==
    /\ api_pc = "get_config"
    /\ IF ~main_config.cookie
       THEN /\ api_pc' = "exited"
            /\ UNCHANGED << cookie_invalid, cookies >>
       ELSE \E probe \in {"raises", "0", "1"} :
               /\ api_pc' = IF probe = "raises" THEN "validate"
                             ELSE CheckCookie(probe)
               /\ cookie_invalid' = (probe = "0")
               /\ IF probe = "1"
                  THEN \E browser \in {FileCookie, OtherCookie},
                          outcome \in {"written", "raises"} :
                          cookies' =
                            [cookies EXCEPT
                               !.file = UpdateCookieConfig(@, browser, outcome),
                               !.probed = IF outcome = "written" THEN browser
                                          ELSE NoCookie]
                  ELSE UNCHANGED cookies
    /\ UNCHANGED << main_config, api_result, fields, pc, jvars, fvars >>

\* main after _get_config: validate_config(config), Spider(config), start
MainValidate ==
    /\ api_pc = "validate"
    /\ IF ValidateConfig(main_config)
       THEN /\ api_pc' = "crawling" /\ pc' = "next_user"
            /\ cookies' = [cookies EXCEPT !.spider = ConfigCookie(main_config)]
       ELSE api_pc' = "exited" /\ UNCHANGED << pc, cookies >>
    /\ UNCHANGED << main_config, api_result, fields, cookie_invalid, jvars, fvars >>

EntryNext ==
    \/ Construct
    \/ SetCookie
    \/ SetUserIds
    \/ SetDateRange
    \/ SetFilterMode
    \/ SetOutputFormat
    \/ EnableMediaDownload
    \/ StartCrawling
    \/ StartCrawlingReturn
    \/ GetConfig
    \/ MainValidate

JikeNext ==
    \/ JikeRequest
    \/ RefreshAccessToken
    \/ JikeResend
    \/ JikeProcess

WeiboNext ==
    \/ NextUser
    \/ GetUserInfo
    \/ InitializeInfo
    \/ GetPageNum
    \/ FetchPage
    \/ WriteWeibo
    \/ AfterYield
    \/ Commit

Next == WeiboNext \/ JikeNext \/ CrawlJike \/ EntryNext \/ FileNext

Spec == Init /\ [][Next]_vars

\* ------------------------------------------------------------ properties

\* C1: a Weibo target whose run raised (in the page-count fetch, a page fetch
\* or a dispatch) is not committed in that run: update_user_config_file is not
\* called for it, it never stands before the commit, and its stored since_date
\* is the value it had before the run.
C1_NoCommitAfterError ==
    /\ \A t \in raised :
          /\ t \notin committed
          /\ stored[user_config_list[t].user_uri] =
                IF mode = "file" THEN user_config_list[t].since_date ELSE NoDate
    /\ pc = "commit" => idx \notin raised

\* C1 witness: with the file path given and the first target committed, the
\* second target's run raised on its second page after the first page's
\* batch was dispatched
C1_Witness ==
    /\ mode = "file" /\ pc = "next_user"
    /\ 1 \in committed /\ idx = 2 /\ idx \in raised
    /\ page = 2 /\ got_num > 0

\* C2: in one get_jike_data call a 401 answer leads to exactly one refresh
\* call; after a successful refresh the request is sent again exactly once,
\* with the same cursor and the new access token, and its answer is processed
\* like a first answer; a failed refresh or a 401 on the request sent again
\* raises, after which the run makes no further request.
C2_RefreshOnOneFetch ==
    /\ Len(sent) <= 2 /\ call_refresh <= 1
    /\ jpc = "refresh" =>
          Len(sent) = 1 /\ call_refresh = 0 /\ response.status = 401
    /\ jpc = "resend" =>
          Len(sent) = 1 /\ call_refresh = 1 /\ last_refresh.result = "ok"
    /\ Len(sent) = 2 =>
          /\ call_refresh = 1 /\ last_refresh.result = "ok"
          /\ sent[2].cursor = sent[1].cursor
          /\ sent[2].token = access_token
          /\ sent[2].token # sent[1].token
    /\ jpc = "process" => response.status # 401
    /\ jpc = "raised" =>
          /\ call_refresh = 1
          /\ \/ last_refresh.result \in {"failed", "missing"} /\ Len(sent) = 1
             \/ last_refresh.result = "ok" /\ Len(sent) = 2 /\ response.status = 401
          /\ ~ENABLED JikeNext

\* C2 witness: the request sent again after a refresh was answered with data
\* and a cursor, and the loop took them like any page
C2_Witness ==
    /\ Len(sent) = 2 /\ jpc = "request"
    /\ response.status = 200 /\ response.data # << >>
    /\ all_data # << >> /\ last_id = response.lastId /\ last_id # 0

C4_SinkIsolation ==
    sink_failed # 0 =>
        /\ \A s \in Sinks \ {sink_failed} : delivered[s] = weibo_id_list
        /\ idx \notin raised

\* C5 (as stated): every target whose page loop ended without an exception is
\* committed before the next target starts, however the targets were given.
C5_DoneIsCommitted ==
    \A t \in finished : t \in committed \/ (t = idx /\ pc = "commit")

\* C5 (amended): with the targets given as a file path or through -u, every
\* target whose page loop ended without an exception is committed before the
\* next target starts, and only such targets are; with user_id_list given as a
\* list nothing is ever committed.
C5_DoneIsCommittedWithFile ==
    /\ committed \subseteq finished
    /\ mode \in {"file", "flag"} =>
          \A t \in finished : t \in committed \/ (t = idx /\ pc = "commit")
    /\ mode = "list" =>
          /\ committed = {}
          /\ \A u \in DOMAIN stored : stored[u] = NoDate

\* C5 witness: under -u the first target's loop ended at its last page, it was
\* committed, and the second target is being taken
C5_Witness ==
    /\ mode = "flag" /\ pc = "get_user_info" /\ idx = 2
    /\ 1 \in finished /\ 1 \in committed
    /\ stored[1] # NoDate

\* C6: whenever a global wait fires, before the page loop or inside it, the
\* page counter is reset to 0 and the tier that fired is moved from the head
\* to the tail; in every reachable state the schedule is a cyclic rotation of
\* the configured list, with the same tiers and the same length.
C6_BackoffRing ==
    /\ LET n == Len(cfg_global_wait) IN
       \E k \in 0..n :
          global_wait = [i \in 1..n |-> cfg_global_wait[((i + k - 1) % n) + 1]]
    /\ last_wait.place # "none" =>
          /\ page_count = 0
          /\ global_wait[Len(global_wait)] =
                << last_wait.threshold, last_wait.tier_seconds >>

\* C6 witness: a wait that fired before the page loop of a later target left
\* the two-tier schedule rotated by one
C6_Witness ==
    /\ last_wait.place = "pre" /\ last_wait.target = 2
    /\ Len(cfg_global_wait) = 2
    /\ global_wait = << cfg_global_wait[2], cfg_global_wait[1] >>

\* C7 (as stated): a global wait fires exactly when the page counter reaches
\* the head tier's threshold and sleeps exactly that tier's seconds, for every
\* target of a run.
C7_WaitAtThreshold ==
    last_wait.place # "none" =>
        /\ last_wait.counter = last_wait.threshold
        /\ last_wait.seconds = last_wait.tier_seconds

\* C7 (amended): in the page loop the wait fires after a fetch exactly when
\* the counter is at or above the head tier's threshold (the user-info and
\* page-count fetches are counted without a test, so it can be above) and
\* sleeps that tier's seconds; before the page loop a wait fires when the
\* counter is above 2 and counter + page_num is above the threshold, and it
\* sleeps int(seconds * min(1, counter / threshold)).  With the schedule
\* [(5,10),(10,20)] and one target of up to 14 pages, a 10 s wait fires after
\* fetch 5 (page 3), a 20 s wait after fetch 15 (page 13), and no other.
C7_WaitAtOrAboveThreshold ==
    /\ last_wait.place = "loop" =>
          /\ last_wait.counter >= last_wait.threshold
          /\ last_wait.seconds = last_wait.tier_seconds
    /\ last_wait.place = "pre" =>
          /\ last_wait.counter > 2
          /\ last_wait.counter + page_num > last_wait.threshold
          /\ last_wait.seconds =
                (last_wait.tier_seconds * Min(last_wait.counter, last_wait.threshold))
                   \div last_wait.threshold
    /\ (pc = "fetch_page" /\ page > 1) => page_count < global_wait[1][1]
    /\ cfg_global_wait = << <<5, 10>>, <<10, 20>> >> =>
          /\ last_wait.place # "none" =>
                \/ /\ last_wait.place = "loop" /\ last_wait.page = 3
                   /\ last_wait.counter = 5 /\ last_wait.seconds = 10
                \/ /\ last_wait.place = "loop" /\ last_wait.page = 13
                   /\ last_wait.counter = 10 /\ last_wait.seconds = 20
          /\ pc = "fetch_page" =>
                /\ page_count = IF page <= 3 THEN page + 1
                                ELSE IF page <= 13 THEN page - 4 ELSE page - 14
                /\ global_wait = IF page <= 3 \/ page > 13
                                 THEN cfg_global_wait
                                 ELSE << <<10, 20>>, <<5, 10>> >>

\* C7 witness: the second wait of the scenario, 20 s after fetch 15
C7_Witness ==
    /\ cfg_global_wait = << <<5, 10>>, <<10, 20>> >>
    /\ last_wait.place = "loop" /\ last_wait.page = 13 /\ last_wait.seconds = 20
    /\ pc = "fetch_page" /\ page = 14 /\ now = 13

C9_SiblingsAlwaysCrawled ==
    pc \in {"done", "exited"} => idx = Len(user_config_list)

\* C9 (amended): an Exception raised in one target's run does not end the run,
\* start returns only after the last target was taken; the one early end is
\* the sys.exit() of extract_user_info on an invalid session, during the
\* user-info fetch of a target, after which no later target is taken.
C9_SiblingsCrawledUnlessExit ==
    /\ pc = "done" => idx = Len(user_config_list)
    /\ pc = "exited" => idx \in raised /\ user_config # idx /\ ~ENABLED WeiboNext
    /\ \A t \in raised : t <= idx

\* C9 witness: the first target's run raised, the second was crawled to the
\* end of its page loop, and start returned
C9_Witness ==
    /\ pc = "done" /\ raised = {1} /\ 2 \in finished /\ got_num > 0

\* C10: refresh_access_token replaces both tokens or none: the pair in memory
\* is always one complete pair; a refresh whose request failed or whose
\* response lacked a token reports failure (get_jike_data raises) and leaves
\* the pair it found; a successful one installs the pair of the response.
C10_AtomicReplacement ==
    /\ access_token = refresh_token
    /\ last_refresh.result \in {"failed", "missing"} =>
          /\ << access_token, refresh_token >> = last_refresh.before
          /\ jpc = "raised"
    /\ last_refresh.result = "missing" =>
          last_refresh.offered[1] = 0 \/ last_refresh.offered[2] = 0
    /\ last_refresh.result = "ok" =>
          /\ << access_token, refresh_token >> = last_refresh.offered
          /\ last_refresh.offered[1] # 0 /\ last_refresh.offered[2] # 0
          /\ last_refresh.offered # last_refresh.before

\* C10 witness: the refresh response carried a new access token and no
\* refresh token
C10_Witness ==
    /\ last_refresh.result = "missing"
    /\ last_refresh.offered[1] # 0 /\ last_refresh.offered[2] = 0
    /\ jpc = "raised"

\* C11: whenever refresh_access_token reported success, the token pair in
\* jike_config.json equals the pair in memory, from before the request is sent
\* again to the end of the run.
C11_PersistOnRefresh ==
    last_refresh.result = "ok" =>
        file_tokens = << access_token, refresh_token >>

\* a run of get_all_jike_data that ended with no refresh and no failed request
JikeCleanRun == jpc = "done" /\ n_refresh = 0 /\ response.status \in {0, 200}

\* the last response was the last page of the target: no items, or no lastId
JikeLastPage ==
    response.status = 200 /\ (response.data = << >> \/ response.lastId = 0)

\* a Weibo target whose page loop ran to the end of range(1, page_num + 1)
\* with no exception and no to_continue = False
WeiboFullRun == pc = "commit" /\ idx \notin raised /\ to_continue

\* the counts of a full Weibo run: one get_one_page call per page, and every
\* record of every batch counted in got_num and written to every sink
WeiboCounts ==
    WeiboFullRun =>
        /\ fetched = page_num
        /\ got_num = served
        /\ \A s \in Sinks : Len(delivered[s]) = served

C13_CursorTermination ==
    /\ jpage = 1 => \A i \in 1..Len(sent) : sent[i].cursor = 0
    /\ jpc \notin {"request", "done"} =>
          \A i \in 1..Len(sent) : sent[i].cursor = last_id
    /\ (jpc \in {"request", "done"} /\ response.status = 200
            /\ response.data # << >>) =>
          /\ last_id = response.lastId
          /\ SubSeq(all_data, Len(all_data) - Len(response.data) + 1,
                    Len(all_data)) = response.data
    /\ (jpc = "request" /\ jpage > 1) => last_id # 0
    /\ (jpc \in {"done", "raised"} /\ JikeLastPage) =>
          /\ jpc = "done"
          /\ ~ENABLED JikeNext
          /\ Len(all_data) >= jpage - 1

C13_Witness ==
    /\ jpc = "done" /\ n_refresh = 0
    /\ n_requests = 2 /\ sent[1].cursor # 0
    /\ response.status = 200 /\ response.data = << >>
    /\ Len(all_data) = 2

\* C14 (as stated): the page loop requests pages 1, 2, 3, ... in order, each
\* once, dispatches the batch of a page before it fetches the next, stops
\* after page page_num, and fetches no page after a page with zero items.
C14_StopOnEmptyPage ==
    /\ pc = "fetch_page" => page = fetched + 1 /\ page <= page_num
    /\ pc = "fetch_page" => got_num = served
    /\ (pc = "fetch_page" /\ fetched >= 1) => weibos # << >>

\* C14 (amended): the page loop requests pages 1, 2, 3, ... in order, each
\* once, dispatches the batch of a page before it fetches the next, and stops
\* after page page_num or when get_one_page returns to_continue = False; a
\* page with zero items is not dispatched and does not by itself stop the loop.
C14_StopOnPageNumOrToContinue ==
    /\ pc = "fetch_page" =>
          /\ page = fetched + 1 /\ page <= page_num
          /\ got_num = served
          /\ \A s \in Sinks : Len(delivered[s]) = served
          /\ fetched >= 1 => to_continue
    /\ pc \in {"write_weibo", "after_yield"} =>
          /\ page = fetched /\ page <= page_num
          /\ pc = "write_weibo" => weibos # << >>
          /\ pc = "write_weibo" => got_num + Len(weibos) = served
    /\ (pc = "commit" /\ idx \notin raised) =>
          /\ fetched <= page_num
          /\ fetched = page_num \/ ~to_continue

C14_Witness ==
    /\ pc = "fetch_page" /\ page = 2 /\ fetched = 1
    /\ weibos = << >> /\ to_continue
    /\ page_num >= 2

\* the commit of the current target has just been executed
JustCommitted == pc = "next_user" /\ idx >= 1 /\ idx \in committed

\* C15: a target that completed its pages has the watermark end_date, or,
\* when end_date is "now", the clock value read in initialize_info, before
\* the target's first page fetch, and no later clock value.
C15_WatermarkAtRunStart ==
    JustCommitted =>
        /\ stored[Cur.user_uri] =
              IF end_date = EndNow THEN run_start ELSE end_date
        /\ user_config = idx
        /\ run_start <= now

C15_Witness ==
    /\ JustCommitted /\ end_date = EndNow
    /\ fetched = 2 /\ page_num = 2
    /\ stored[Cur.user_uri] = run_start

\* C16 (as stated): with end_date "now", the committed watermark is the clock
\* value at the moment update_user_config_file is executed.
C16_WatermarkAtCommit ==
    (JustCommitted /\ end_date = EndNow) => stored[Cur.user_uri] = now

\* C16 (amended): with end_date "now", the committed watermark is fixed
\* before the target's first page fetch: the value handed to
\* update_user_config_file is earlier than the clock at the commit by the
\* time the target's page fetches took.
C16_WatermarkBeforeFetches ==
    /\ (pc \in {"fetch_page", "write_weibo", "after_yield", "commit"}
            /\ end_date = EndNow) =>
          new_since_date + fetched = now
    /\ (JustCommitted /\ end_date = EndNow) =>
          /\ stored[Cur.user_uri] + fetched = now
          /\ fetched >= 1 => stored[Cur.user_uri] < now

C16_Witness ==
    /\ JustCommitted /\ end_date = EndNow
    /\ idx = 2 /\ fetched >= 1
    /\ stored[Cur.user_uri] < now

\* C17: once an interrupt has arrived during a global wait of get_weibo_info,
\* the run is over with no further step (no page is fetched), the target is
\* not committed and its stored since_date is the one it had before the run,
\* and every batch dispatched before the interrupt is still with every sink.
C17_CancelDuringGlobalWait ==
    signal =>
        /\ pc = "cancelled"
        /\ ~ENABLED WeiboNext
        /\ idx \notin committed /\ idx \notin finished
        /\ stored[Cur.user_uri] = IF mode = "file" THEN Cur.since_date ELSE NoDate
        /\ got_num = served
        /\ \A s \in Sinks : Len(delivered[s]) = served
        /\ last_wait = NoWait

C17_Witness ==
    /\ signal /\ pc = "cancelled"
    /\ idx = 1 /\ Len(user_config_list) = 2
    /\ fetched >= 1 /\ Len(delivered[1]) >= 1

\* C18: once the cookie was found invalid (the login probe of check_cookie
\* reports not logged in, or extract_user_info gets the login page) the run
\* is over: nothing further is fetched and no new cookie is asked for; after
\* the probe no Spider was built, and after the login page no page of the
\* target was fetched and the target is not committed.
C18_InvalidCookieIsFatal ==
    cookie_invalid =>
        /\ ~ENABLED Next
        /\ pc \in {"off", "exited"}
        /\ pc = "off" => api_pc = "exited" /\ idx = 0 /\ page_count = 0
        /\ pc = "exited" =>
              /\ fetched = 0 /\ idx \notin committed
              /\ user_config # idx
              /\ api_pc \in {"off", "crawling"}

C18_Witness ==
    /\ cookie_invalid
    /\ api_pc = "exited" /\ pc = "off"
    /\ main_config.cookie /\ ValidateConfig(main_config)

\* C19: no network fetch is made under a configuration that validate_config
\* rejects: when WeiboSpiderMain.start_crawling or main has started the
\* Spider and its first fetch (the user-info fetch) has been attempted, the
\* configuration in use passes validate_config.
C19_ValidationBeforeNetwork ==
    (api_pc # "off" /\ idx >= 1 /\ pc # "get_user_info") =>
        ValidateConfig(main_config)

\* the schedule gw turned k times
Turned(gw, k) ==
    [i \in 1..Len(gw) |-> gw[((i - 1 + k) % Len(gw)) + 1]]

\* C20 (as stated): at the start of each target's crawl the global-wait page
\* counter is 0 and the schedule is in its configured order, and the target's
\* page loop starts with an empty weibo_id_list.
C20_TargetIsolation ==
    /\ pc = "get_user_info" =>
          page_count = 0 /\ global_wait = cfg_global_wait
    /\ pc = "get_page_num" => weibo_id_list = << >>

\* C20 (amended): each target's page loop starts with an empty weibo_id_list,
\* a got_num of 0 and its own user_config; the page counter and the schedule
\* belong to the Spider, not to the target: they are 0 and in configured
\* order for the first target only, and a later target starts with the
\* counter and the turn of the schedule the targets before it left.
C20_IdListPerTargetWaitPerRun ==
    /\ pc = "get_page_num" =>
          /\ weibo_id_list = << >> /\ got_num = 0
          /\ user_config = idx
          /\ \A s \in Sinks : delivered[s] = << >>
    /\ (pc = "get_user_info" /\ idx = 1) =>
          page_count = 0 /\ global_wait = cfg_global_wait
    /\ pc = "get_user_info" =>
          /\ page_count >= 0
          /\ global_wait = << >> \/
                \E k \in 0..(Len(cfg_global_wait) - 1) :
                    global_wait = Turned(cfg_global_wait, k)

C20_Witness ==
    /\ pc = "get_page_num" /\ idx = 2
    /\ weibo_id_list = << >>
    /\ page_count > 1
    /\ global_wait # cfg_global_wait

\* the step of get_weibo_info after a page that is to be continued, and its
\* step after the page count was fetched, as the loop alone decides them:
\* no exception, nothing dispatched or committed, the next page or the end
\* of range(1, page_num + 1)
LoopStepAlone ==
    /\ (pc = "after_yield" /\ to_continue) =>
          pc' = PageLoop(page + 1, page_num)
    /\ (pc = "get_page_num" /\ page_num' # page_num) =>
          pc' = PageLoop(1, page_num')
    /\ (pc = "after_yield" /\ to_continue) \/
       (pc = "get_page_num" /\ page_num' # page_num) =>
          /\ raised' = raised
          /\ delivered' = delivered /\ stored' = stored
          /\ weibo_id_list' = weibo_id_list /\ got_num' = got_num

\* C21: backoff only delays.  The sequence of page fetches, the batches
\* dispatched and the watermark outcome are the same for every accepted
\* backoff configuration and every random draw: every step of the page loop
\* in which the waits are computed goes where the loop alone (page, page_num,
\* to_continue) sends it, whatever global_wait, page_count, random_wait_pages
\* and the draws are, unless the run is interrupted from outside.
C21_BackoffOnlyDelays ==
    [][ ~signal' => LoopStepAlone ]_vars

\* a Weibo target whose run ended in an exception keeps what was written:
\* every sink holds at least the got_num records of the batches dispatched
\* to all sinks, and when no dispatch failed that is every record obtained
WeiboPartialKept ==
    (idx >= 1 /\ idx \in raised /\ user_config = idx
        /\ pc \in {"next_user", "exited", "cancelled"}) =>
        \A s \in Sinks :
            /\ Len(delivered[s]) >= got_num
            /\ sink_failed = 0 => got_num = served /\ Len(delivered[s]) = served

\* C22 (as stated): after a fatal error the items of the pages fetched before
\* it remain delivered: with the sinks for Weibo, in the output crawl_jike
\* saves for Jike.
C22_KeepPartialWrites ==
    /\ WeiboPartialKept
    /\ (jike_reply # "none" /\ all_data # << >>) => jike_saved = all_data

\* C22 (amended): as C22 for Weibo; for Jike the items gathered are saved
\* when get_all_jike_data returns (normal end, or a failure that is not a
\* token failure), and a token failure, which get_all_jike_data raises,
\* leaves nothing saved: crawl_jike answers 401.
C22_KeepPartialWritesUnlessTokenFailure ==
    /\ WeiboPartialKept
    /\ (jike_reply # "none" /\ jpc = "done" /\ all_data # << >>) =>
          jike_reply = "success" /\ jike_saved = all_data
    /\ (jike_reply # "none" /\ jpc = "raised") =>
          jike_reply = "401" /\ jike_saved = << >>
    /\ jike_reply = "none" => jike_saved = << >>

C22_Witness ==
    /\ jpc = "raised" /\ jike_reply = "401"
    /\ Len(all_data) >= 1 /\ jike_saved = << >>
    /\ jpage = 2

\* config["global_wait"] as the caller sees it: Spider.__init__ stores the
\* caller's list itself in self.global_wait (no copy), so the pop and append
\* of a global wait act on the caller's list
CallerGlobalWait == global_wait

\* C23: when Spider.start has returned, the configuration the caller supplied
\* is what it was before the run: its global_wait tiers are in the order the
\* caller gave them.
C23_CallerConfigUnchanged ==
    pc = "done" => CallerGlobalWait = cfg_global_wait

\* a jitter sleep in this step: page1 = page is assigned
JitterFires == pc = "after_yield" /\ page1' # page1

\* C24: in a target's page loop a jitter sleep comes exactly random_pages
\* pages after the one before it (or after the start of the loop), with
\* random_pages drawn from random_wait_pages before page 1 and again at
\* every sleep; no page is fetched with a sleep overdue, so never more than
\* max(random_wait_pages) pages are fetched between two sleeps.
C24_JitterCadence ==
    /\ [](pc \in {"fetch_page", "write_weibo", "after_yield"} =>
            /\ random_pages \in random_wait_pages[1]..random_wait_pages[2]
            /\ page1 < page
            /\ page - page1 <= random_pages)
    /\ [][ JitterFires =>
              /\ page - page1 = random_pages
              /\ page1' = page
              /\ random_pages' \in random_wait_pages[1]..random_wait_pages[2]
              /\ page < page_num ]_vars

C24_Witness ==
    /\ pc = "fetch_page"
    /\ page1 >= 1 /\ random_pages = 2
    /\ page = page1 + 2

\* C25: after update_user_config_file wrote watermark w for a target, the
\* next get_user_config_list returns since_date = w for that target, for
\* each of the four shapes of its line and for a date and a date-time w; the
\* lines of the other targets are as they were.
C25_WatermarkRoundTrip ==
    fpc = "read" =>
        /\ \E i \in 1..Len(user_config_read) :
              user_config_read[i].user_uri = last_update.user_uri
        /\ \A i \in 1..Len(user_config_read) :
              user_config_read[i].user_uri = last_update.user_uri =>
                  user_config_read[i].since_date = last_update.since_date
        /\ Len(user_id_file) = Len(last_update.before)
        /\ \A i \in 1..Len(user_id_file) :
              user_id_file[i][1] # last_update.user_uri =>
                  /\ user_id_file[i] = last_update.before[i]
                  /\ user_config_read[i].since_date =
                        UserConfigOf(last_update.before[i],
                                     << "2024-01-01" >>).since_date

C25_Witness ==
    /\ fpc = "read"
    /\ last_update.user_uri = "2"
    /\ Len(last_update.before[2]) = 4
    /\ last_update.since_date = << "2024-02-02" >>
    /\ user_config_read[2].since_date = << "2024-02-02" >>

\* C26: start_crawling returns True only if no target's crawl raised; when
\* the crawl of the requested target raised (user-info fetch, page fetch or
\* dispatch), it does not return True.
C26_ReturnTellsSuccess ==
    api_result = "True" => raised = {}

\* get_all_jike_data is inside its loop
JikeInLoop == jpc \in {"request", "refresh", "resend", "process"}

\* what is left of get_all_jike_data: the turns of the loop not yet begun
\* and the steps left of the turn in hand
JikeRank ==
    4 * (max_pages + 1 - jpage)
      + (CASE jpc = "request" -> 4
           [] jpc = "refresh" -> 3
           [] jpc = "resend"  -> 2
           [] jpc = "process" -> 1
           [] OTHER           -> 0)

\* C27: for every max_pages >= 0 and every sequence of server responses (the
\* same lastId again, 401 answers) get_all_jike_data terminates: the page in
\* hand is never beyond max_pages, a page is sent at most twice (the second
\* time after the one refresh of that page), at most 2 * max_pages requests
\* are sent in all, every step inside the loop can be followed by another, and
\* each step brings the end of the loop nearer.
C27_BoundedPagination ==
    /\ [](/\ JikeInLoop => (jpage >= 1 /\ jpage <= max_pages /\ ENABLED JikeNext)
          /\ jpc # "off" => /\ jpage <= max_pages + 1
                            /\ JikeRank >= 0
                            /\ Len(sent) <= 2 /\ call_refresh <= 1
                            /\ n_requests <= 2 * max_pages
          /\ jpc = "request" => n_requests <= 2 * (jpage - 1)
          /\ jpc \in {"refresh", "resend", "process"} =>
                n_requests <= 2 * (jpage - 1) + Len(sent))
    /\ [][JikeInLoop => JikeRank' < JikeRank]_vars

\* C27 witness: with max_pages = 2 the server gave the same cursor twice and
\* answered 401 once on each page; four requests were sent and the run ended
C27_Witness ==
    /\ jpc = "done" /\ max_pages = 2 /\ jpage = 3
    /\ n_requests = 4 /\ n_refresh = 2
    /\ last_id = response.lastId /\ sent[1].cursor = last_id

\* C28: on the command-line path, when check_cookie succeeded, the cookie
\* held by the Spider is the cookie that passed the login probe and that
\* check_cookie stored in config.json.
C28_ValidatedCookieUsed ==
    (api_pc = "crawling" /\ cookies.probed # NoCookie) =>
        /\ cookies.spider = cookies.probed
        /\ cookies.spider = cookies.file

\* get_weibo_info is about to read self.global_wait[0]: after a page that
\* is to be continued (the test of the wait inside the loop), and after the
\* page-count fetch once the counter has passed 2 (the test before the loop)
ReadsHeadTier ==
    \/ pc = "after_yield" /\ to_continue
    \/ pc = "get_page_num" /\ Cur.since_date <= now /\ page_count + 1 > 2

\* C29: every configuration accepted by validate_config gives a well-defined
\* schedule: whenever get_weibo_info reads the head tier of global_wait the
\* tier list is not empty, and no target's run is ended by that read.
C29_ScheduleWellDefined ==
    ReadsHeadTier => global_wait # << >>

\* the request of the page in hand failed with a network error or an HTTP
\* error other than 401
JikeFetchFailed == response.status \notin {0, 200, 401}

\* C30: a failure of the request of page k that is not a 401 (network error,
\* other HTTP error) is not raised out of get_all_jike_data: the loop ends
\* with all_data as it was after page k - 1, one item at least for each of
\* those pages; for k > 1 crawl_jike saves exactly these items and answers
\* success, as it does for every run that returned items.
C30_FetchFailureKeepsPages ==
    /\ [](/\ (JikeFetchFailed /\ jpc \in {"done", "raised"}) =>
                /\ jpc = "done"
                /\ Len(all_data) >= jpage - 1
                /\ jike_reply # "none" =>
                      IF jpage > 1
                      THEN jike_reply = "success" /\ jike_saved = all_data
                      ELSE jike_reply = "500" /\ jike_saved = << >>
          /\ (jpc = "done" /\ all_data # << >> /\ jike_reply # "none") =>
                jike_reply = "success" /\ jike_saved = all_data)
    /\ [][(jpc = "process" /\ JikeFetchFailed) =>
            jpc' = "done" /\ all_data' = all_data /\ jpage' = jpage]_vars

\* C30 witness: the request of page 2 failed; the items of page 1 were saved
C30_Witness ==
    /\ jpc = "done" /\ JikeFetchFailed /\ jpage = 2
    /\ Len(all_data) >= 1
    /\ jike_reply = "success" /\ jike_saved = all_data

====
